---- MODULE Spec2Model ----
(***************************************************************************)
(* A model of horse_racing_analysis.py: the Cleaner (clean_data), the two  *)
(* odds conversions (convert_dates_to_odds, string_odds_to_float) and the  *)
(* three analysis functions (win_data, plot_bar_wins, calculate_accuracy)  *)
(* run by the module-level script on the cleaned table.                    *)
(*                                                                         *)
(* A table is a record [cols, rows]: the set of its column names and the   *)
(* sequence of its rows, each row a function from cols to cells.  A cell   *)
(* is a record [t, s, n, d]: t = "null" a missing value (pandas NaN or     *)
(* Python None), t = "str" the text s (a sequence of characters),          *)
(* t = "num" the number n/d in lowest terms, t = "inf" an infinity of sign *)
(* n, t = "nan" the float nan returned by an arithmetic operation.         *)
(***************************************************************************)
EXTENDS Integers, Sequences, FiniteSets, TLC

VARIABLES raw_df, clean_df, pc, out, calls, value, result

vars == <<raw_df, clean_df, pc, out, calls, value, result>>

--------------------------------------------------------------------------
(* Cells *)

Null == [t |-> "null", s |-> <<>>, n |-> 0, d |-> 1]

Str(s) == [t |-> "str", s |-> s, n |-> 0, d |-> 1]

Inf(sign) == [t |-> "inf", s |-> <<>>, n |-> sign, d |-> 1]

NaN == [t |-> "nan", s |-> <<>>, n |-> 0, d |-> 1]

Abs(i) == IF i < 0 THEN -i ELSE i

Sign(i) == IF i < 0 THEN -1 ELSE 1

RECURSIVE GCD(_, _)
GCD(a, b) == IF b = 0 THEN a ELSE GCD(b, a % b)

\* the float n/d (d > 0): equal quotients are the same float
Num(n, d) ==
    LET g == GCD(Abs(n), d)
    IN  [t |-> "num", s |-> <<>>, n |-> n \div g, d |-> d \div g]

Whole(i) == Num(i, 1)

\* pandas isnull
isnull(c) == c.t \in {"null", "nan"}

--------------------------------------------------------------------------
(* Text: a string is a sequence of one-character strings *)

Digits == {"0", "1", "2", "3", "4", "5", "6", "7", "8", "9"}

DigitVal(c) ==
    CASE c = "0" -> 0 [] c = "1" -> 1 [] c = "2" -> 2 [] c = "3" -> 3
      [] c = "4" -> 4 [] c = "5" -> 5 [] c = "6" -> 6 [] c = "7" -> 7
      [] c = "8" -> 8 [] c = "9" -> 9

DigitChar(i) ==
    CASE i = 0 -> "0" [] i = 1 -> "1" [] i = 2 -> "2" [] i = 3 -> "3"
      [] i = 4 -> "4" [] i = 5 -> "5" [] i = 6 -> "6" [] i = 7 -> "7"
      [] i = 8 -> "8" [] i = 9 -> "9"

AllDigits(s) == Len(s) > 0 /\ \A i \in 1..Len(s) : s[i] \in Digits

RECURSIVE DigitsVal(_)
DigitsVal(s) ==
    IF s = <<>> THEN 0
    ELSE 10 * DigitsVal(SubSeq(s, 1, Len(s) - 1)) + DigitVal(s[Len(s)])

\* str(i) of a natural number
RECURSIVE IntToStr(_)
IntToStr(i) ==
    IF i < 10 THEN <<DigitChar(i)>>
    ELSE Append(IntToStr(i \div 10), DigitChar(i % 10))

\* the upper-case letters of the month abbreviations
Lower(c) ==
    CASE c = "J" -> "j" [] c = "F" -> "f" [] c = "M" -> "m" [] c = "A" -> "a"
      [] c = "S" -> "s" [] c = "O" -> "o" [] c = "N" -> "n" [] c = "D" -> "d"
      [] c = "I" -> "i" [] OTHER -> c

lower(s) == [i \in 1..Len(s) |-> Lower(s[i])]

\* str.split(sep): the pieces between the occurrences of sep
RECURSIVE SplitFrom(_, _, _, _)
SplitFrom(s, sep, i, cur) ==
    IF i > Len(s) THEN <<cur>>
    ELSE IF s[i] = sep THEN <<cur>> \o SplitFrom(s, sep, i + 1, <<>>)
    ELSE SplitFrom(s, sep, i + 1, Append(cur, s[i]))

split(s, sep) == SplitFrom(s, sep, 1, <<>>)

--------------------------------------------------------------------------
(* Python's float(text) and float division.  No text of the model holds   *)
(* white space, ".", "_", "+" or an exponent.                              *)

\* float(s) for an unsigned s: ok = FALSE is ValueError
FloatUnsigned(s) ==
    IF AllDigits(s) THEN [ok |-> TRUE, v |-> Whole(DigitsVal(s))]
    ELSE IF lower(s) \in {<<"i", "n", "f">>,
                          <<"i", "n", "f", "i", "n", "i", "t", "y">>}
         THEN [ok |-> TRUE, v |-> Inf(1)]
    ELSE IF lower(s) = <<"n", "a", "n">> THEN [ok |-> TRUE, v |-> NaN]
    ELSE [ok |-> FALSE, v |-> Null]

Negate(v) ==
    CASE v.t = "num" -> Num(-v.n, v.d)
      [] v.t = "inf" -> Inf(-v.n)
      [] OTHER -> v

float(s) ==
    IF Len(s) > 0 /\ s[1] = "-"
    THEN LET r == FloatUnsigned(SubSeq(s, 2, Len(s)))
         IN  [ok |-> r.ok, v |-> IF r.ok THEN Negate(r.v) ELSE Null]
    ELSE FloatUnsigned(s)

\* a / b on floats: ok = FALSE is ZeroDivisionError
FloatDiv(a, b) ==
    IF b.t = "num" /\ b.n = 0 THEN [ok |-> FALSE, v |-> Null]
    ELSE IF a.t = "nan" \/ b.t = "nan" THEN [ok |-> TRUE, v |-> NaN]
    ELSE IF a.t = "inf" /\ b.t = "inf" THEN [ok |-> TRUE, v |-> NaN]
    ELSE IF a.t = "inf" THEN [ok |-> TRUE, v |-> Inf(a.n * Sign(b.n))]
    ELSE IF b.t = "inf" THEN [ok |-> TRUE, v |-> Whole(0)]
    ELSE [ok |-> TRUE, v |-> Num(a.n * b.d * Sign(b.n), a.d * Abs(b.n))]

\* x <= y on floats: nothing compares with a missing value or a nan
Rank(x) == IF x.t = "inf" THEN x.n ELSE 0

Leq(x, y) ==
    /\ x.t \in {"num", "inf"}
    /\ y.t \in {"num", "inf"}
    /\ \/ Rank(x) < Rank(y)
       \/ Rank(x) = Rank(y) /\ (Rank(x) # 0 \/ x.n * y.d <= y.n * x.d)

--------------------------------------------------------------------------
(* string_odds_to_float(value) *)

\* the try block: raised names the exception it ends in, "" for none
OddsTry(v) ==
    IF v.t # "str" THEN [raised |-> "AttributeError", v |-> Null]
    ELSE LET split_value == split(v.s, "/")
         IN  IF \E i \in 1..Len(split_value) : ~float(split_value[i]).ok
                \/ Len(split_value) # 2
             THEN [raised |-> "ValueError", v |-> Null]
             ELSE LET numerator == float(split_value[1]).v
                      denominator == float(split_value[2]).v
                      q == FloatDiv(numerator, denominator)
                  IN  IF q.ok THEN [raised |-> "", v |-> q.v]
                      ELSE [raised |-> "ZeroDivisionError", v |-> Null]

\* except Exception: return None
string_odds_to_float(v) ==
    LET r == OddsTry(v)
    IN  IF r.raised = "" THEN [raised |-> "", v |-> r.v]
        ELSE [raised |-> "", v |-> Null]

--------------------------------------------------------------------------
(* convert_dates_to_odds(value) *)

MonthNumber(s) ==
    CASE s = <<"j", "a", "n">> -> 1 [] s = <<"f", "e", "b">> -> 2
      [] s = <<"m", "a", "r">> -> 3 [] s = <<"a", "p", "r">> -> 4
      [] s = <<"m", "a", "y">> -> 5 [] s = <<"j", "u", "n">> -> 6
      [] s = <<"j", "u", "l">> -> 7 [] s = <<"a", "u", "g">> -> 8
      [] s = <<"s", "e", "p">> -> 9 [] s = <<"o", "c", "t">> -> 10
      [] s = <<"n", "o", "v">> -> 11 [] s = <<"d", "e", "c">> -> 12
      [] OTHER -> 0

\* days of the month in 1900, the year strptime assumes
DaysIn(m) ==
    CASE m = 2 -> 28
      [] m \in {4, 6, 9, 11} -> 30
      [] OTHER -> 31

\* %d: one or two digits, 1 to 31
DayNumber(s) ==
    IF AllDigits(s) /\ Len(s) <= 2 /\ DigitsVal(s) \in 1..31
    THEN DigitsVal(s) ELSE 0

\* datetime.strptime(value, '%d-%b'): ok = FALSE is ValueError or TypeError
strptime(v) ==
    IF v.t # "str" THEN [ok |-> FALSE, day |-> 0, month |-> 0]
    ELSE LET p == split(v.s, "-")
             day == IF Len(p) = 2 THEN DayNumber(p[1]) ELSE 0
             month == IF Len(p) = 2 THEN MonthNumber(lower(p[2])) ELSE 0
         IN  IF day > 0 /\ month > 0 /\ day <= DaysIn(month)
             THEN [ok |-> TRUE, day |-> day, month |-> month]
             ELSE [ok |-> FALSE, day |-> 0, month |-> 0]

\* str(value) of a cell that is text or missing: str(nan) is 'nan'
str(v) == IF v.t = "str" THEN v.s ELSE <<"n", "a", "n">>

convert_dates_to_odds(v) ==
    LET date_obj == strptime(v)
    IN  IF date_obj.ok
        THEN Str(IntToStr(date_obj.day) \o <<"/">> \o IntToStr(date_obj.month))
        ELSE Str(str(v))

--------------------------------------------------------------------------
(* Tables *)

Columns == {"RaceID", "HorseID", "Age", "Won", "ForecastPrice", "StartingPrice"}

NoTable == [cols |-> {}, rows |-> <<>>]

\* df[col] = df[col].apply(convert_dates_to_odds)
apply_convert_dates_to_odds(df, col) ==
    [df EXCEPT !.rows =
        [i \in 1..Len(df.rows) |->
            [df.rows[i] EXCEPT ![col] = convert_dates_to_odds(@)]]]

\* df.isnull().sum()[c]
MissingCount(df, c) ==
    Cardinality({i \in 1..Len(df.rows) : isnull(df.rows[i][c])})

\* df.drop(columns=cs)
drop(df, cs) ==
    [cols |-> df.cols \ cs,
     rows |-> [i \in 1..Len(df.rows) |->
                 [c \in df.cols \ cs |-> df.rows[i][c]]]]

\* df.dropna(subset=cs), every name of cs a column of df
dropna(df, cs) ==
    [df EXCEPT !.rows =
        SelectSeq(df.rows, LAMBDA r : \A c \in cs : ~isnull(r[c]))]

--------------------------------------------------------------------------
(* clean_data(df) *)

Threshold == 205

\* arg is the caller's table after the call (lines 12-13 assign into it),
\* df the table returned, raised the exception the call ends in
clean_data(df) ==
    LET df1 == apply_convert_dates_to_odds(
                   apply_convert_dates_to_odds(df, "ForecastPrice"), "StartingPrice")
        total_rows == Len(df1.rows)
        missing_data == [c \in df1.cols |-> MissingCount(df1, c)]
        columns_to_drop == {c \in df1.cols : missing_data[c] = total_rows}
        df2 == drop(df1, columns_to_drop)
        columns_to_consider == {c \in df1.cols : missing_data[c] < Threshold}
    IN  IF columns_to_consider \subseteq df2.cols
        THEN [raised |-> "", arg |-> df1,
              df |-> dropna(df2, columns_to_consider)]
        ELSE [raised |-> "KeyError", arg |-> df1, df |-> NoTable]

NoOutput ==
    [fn |-> "", col |-> "", args |-> <<>>, msg |-> "", raised |-> "", report |-> <<>>]

\* line 175: clean_df = clean_data(raw_df)
Clean ==
    /\ pc = "clean"
    /\ LET r == clean_data(raw_df)
       IN  /\ raw_df' = r.arg
           /\ clean_df' = r.df
           /\ pc' = IF r.raised = "" THEN "analysis" ELSE "failed"
           /\ out' = [NoOutput EXCEPT !.fn = "clean_data", !.raised = r.raised]
    /\ UNCHANGED <<calls, value, result>>

--------------------------------------------------------------------------
(* Grouping: df.groupby([column_name]) leaves out the rows without a key *)

GroupKeys(df, col) ==
    {df.rows[i][col] : i \in {j \in 1..Len(df.rows) : ~isnull(df.rows[j][col])}}

GroupRows(df, col, k) == {i \in 1..Len(df.rows) : df.rows[i][col] = k}

\* the value of a Won cell in a sum or a count that skips missing values
WonOf(c) == IF c.t = "num" THEN c.n ELSE 0

RECURSIVE SumWon(_, _)
SumWon(df, I) ==
    IF I = {} THEN 0
    ELSE LET i == CHOOSE j \in I : TRUE
         IN  WonOf(df.rows[i]["Won"]) + SumWon(df, I \ {i})

\* agg({'RaceID': 'nunique'})
NUnique(df, I, c) ==
    Cardinality({df.rows[i][c] : i \in {j \in I : ~isnull(df.rows[j][c])}})

\* agg({'Won': 'count'})
CountWon(df, I) == Cardinality({i \in I : ~isnull(df.rows[i]["Won"])})

--------------------------------------------------------------------------
(* win_data(df, column_name, race_threshold, top_bottom_threshold) *)

valid_win_data_columns ==
    {"HorseID", "JockeyID", "OwnerID", "TrainerID", "DamID", "SireID",
     "DamSireID", "Sex", "Colour"}

\* lines 65-70
WinDataMessage(df, column_name) ==
    IF column_name \in df.cols THEN "unable" ELSE "not present"

\* wins_df with the threshold exclusive
wins_df_above(df, column_name, race_threshold) ==
    {e \in {[key |-> k,
             Won |-> SumWon(df, GroupRows(df, column_name, k)),
             TotalRaces |-> NUnique(df, GroupRows(df, column_name, k), "RaceID")] :
                k \in GroupKeys(df, column_name)} :
        e.TotalRaces > race_threshold}

\* lines 72-80: one entry per group that has race_threshold races or more
wins_df(df, column_name, race_threshold) ==
    {e \in {[key |-> k,
             Won |-> SumWon(df, GroupRows(df, column_name, k)),
             TotalRaces |-> NUnique(df, GroupRows(df, column_name, k), "RaceID")] :
                k \in GroupKeys(df, column_name)} :
        e.TotalRaces >= race_threshold}

\* lines 82-85
proportional_wins(e) ==
    [key |-> e.key, ProportionalWins |-> Num(e.Won, e.TotalRaces),
     TotalRaces |-> e.TotalRaces]

\* sort_values(by='TotalRaces'): quicksort, so groups of equal TotalRaces
\* come in any order
sort_values(S, ascending) ==
    {f \in [1..Cardinality(S) -> S] :
        /\ \A i, j \in 1..Cardinality(S) : i # j => f[i] # f[j]
        /\ \A i, j \in 1..Cardinality(S) :
               i < j => IF ascending THEN f[i].TotalRaces <= f[j].TotalRaces
                        ELSE f[i].TotalRaces >= f[j].TotalRaces}

Remove(s, i) == SubSeq(s, 1, i - 1) \o SubSeq(s, i + 1, Len(s))

RateLess(a, b) ==
    Leq(a.ProportionalWins, b.ProportionalWins) /\ a.ProportionalWins # b.ProportionalWins

RateMore(a, b) == RateLess(b, a)

\* the first row of s that has the highest rate
FirstLargest(s) ==
    CHOOSE i \in 1..Len(s) :
        /\ \A j \in 1..Len(s) : ~RateMore(s[j], s[i])
        /\ \A j \in 1..(i - 1) : RateMore(s[i], s[j])

\* the first row of s that has the lowest rate
FirstSmallest(s) ==
    CHOOSE i \in 1..Len(s) :
        /\ \A j \in 1..Len(s) : ~RateLess(s[j], s[i])
        /\ \A j \in 1..(i - 1) : RateLess(s[i], s[j])

\* nlargest as df.head(n): the first n rows, whatever their rates
nlargest_head(s, n) == SubSeq(s, 1, IF n < Len(s) THEN n ELSE Len(s))

\* df.nlargest(n, 'ProportionalWins'), keep='first'
RECURSIVE nlargest(_, _)
nlargest(s, n) ==
    IF n <= 0 \/ s = <<>> THEN <<>>
    ELSE LET i == FirstLargest(s)
         IN  <<s[i]>> \o nlargest(Remove(s, i), n - 1)

\* df.nsmallest(n, 'ProportionalWins'), keep='first'
RECURSIVE nsmallest(_, _)
nsmallest(s, n) ==
    IF n <= 0 \/ s = <<>> THEN <<>>
    ELSE LET i == FirstSmallest(s)
         IN  <<s[i]>> \o nsmallest(Remove(s, i), n - 1)

\* df.loc[df['ProportionalWins'] == df['ProportionalWins'].max()]
best_proportional(s) ==
    SelectSeq(s, LAMBDA e : \A j \in 1..Len(s) : ~RateMore(s[j], e))

\* df.loc[df['ProportionalWins'] == df['ProportionalWins'].min()]
worst_proportional(s) ==
    SelectSeq(s, LAMBDA e : \A j \in 1..Len(s) : ~RateLess(s[j], e))

\* lines 72-103: the reports the call can print
WinDataReports(df, column_name, race_threshold, top_bottom_threshold) ==
    LET P == {proportional_wins(e) : e \in wins_df(df, column_name, race_threshold)}
    IN  {[best |-> best_proportional(up),
          top |-> nlargest(up, top_bottom_threshold),
          worst |-> worst_proportional(down),
          bottom |-> nsmallest(down, top_bottom_threshold)] :
            up \in sort_values(P, TRUE), down \in sort_values(P, FALSE)}

\* what a call printed: msg the message of the column check ("ok" past it),
\* args the thresholds a report was computed with, raised the exception the
\* call ended in
Call(fn, col) ==
    [fn |-> fn, col |-> col, args |-> <<>>, msg |-> "", raised |-> "", report |-> <<>>]

win_data(df, column_name, race_threshold, top_bottom_threshold) ==
    LET c == Call("win_data", column_name)
    IN  IF column_name \notin valid_win_data_columns
        THEN {[c EXCEPT !.msg = WinDataMessage(df, column_name)]}
        ELSE {[c EXCEPT !.msg = "ok",
                        !.args = <<race_threshold, top_bottom_threshold>>,
                        !.report = r] :
                r \in WinDataReports(df, column_name, race_threshold,
                                     top_bottom_threshold)}

--------------------------------------------------------------------------
(* plot_bar_wins(df, column_name) *)

\* lines 110-115
PlotMessage(df, column_name) ==
    IF column_name \notin df.cols THEN "unable" ELSE "not present"

\* lines 117-119: TotalWins / TotalHorses per value of the column
horse_weight_wins_df(df, column_name) ==
    {[key |-> k,
      WeightedAverage |-> Num(SumWon(df, GroupRows(df, column_name, k)),
                              CountWon(df, GroupRows(df, column_name, k)))] :
        k \in GroupKeys(df, column_name)}

\* lines 126-138: linregress raises ValueError on fewer than two distinct
\* x values; the p-value itself is not computed here, either verdict on the
\* slope is possible
plot_bar_wins(df, column_name) ==
    LET c == Call("plot_bar_wins", column_name)
        bars == horse_weight_wins_df(df, column_name)
    IN  IF column_name # "WeightValue" /\ column_name # "Age"
        THEN {[c EXCEPT !.msg = PlotMessage(df, column_name)]}
        ELSE IF Cardinality(bars) < 2
        THEN {[c EXCEPT !.raised = "ValueError"]}
        ELSE {[c EXCEPT !.msg = "ok", !.report = [bars |-> bars, verdict |-> v]] :
                v \in {"significant", "not significant"}}

--------------------------------------------------------------------------
(* calculate_accuracy(df, column_name) *)

\* lines 145-150
AccuracyMessage(df, column_name) ==
    IF column_name \in df.cols THEN "unable" ELSE "not present"

\* line 152: df[column_name] = df[column_name].apply(string_odds_to_float);
\* string_odds_to_float raises nothing, so the column is replaced
apply_string_odds_to_float(df, col) ==
    [df EXCEPT !.rows =
        [i \in 1..Len(df.rows) |->
            [df.rows[i] EXCEPT ![col] = string_odds_to_float(@).v]]]

\* actual_winners without the Won filter
actual_winners_all(df) == [i \in 1..Len(df.rows) |-> i]

\* line 155: the rows with Won == 1
actual_winners(df) ==
    SelectSeq([i \in 1..Len(df.rows) |-> i],
              LAMBDA i : df.rows[i]["Won"] = Whole(1))

\* line 156: pd.merge(actual_winners, df, on='RaceID'); w and h are the
\* rows a pair is made of, x and y their odds
RECURSIVE MergeRow(_, _, _, _)
MergeRow(df, col, w, h) ==
    IF h > Len(df.rows) THEN <<>>
    ELSE (IF df.rows[h]["RaceID"] = df.rows[w]["RaceID"]
          THEN <<[w |-> w, h |-> h, x |-> df.rows[w][col], y |-> df.rows[h][col]]>>
          ELSE <<>>) \o MergeRow(df, col, w, h + 1)

RECURSIVE Merge(_, _, _)
Merge(df, col, winners) ==
    IF winners = <<>> THEN <<>>
    ELSE MergeRow(df, col, Head(winners), 1) \o Merge(df, col, Tail(winners))

\* correct_predictions with < for <=
correct_predictions_strict(race_odds) ==
    Len(SelectSeq(race_odds, LAMBDA p : Leq(p.x, p.y) /\ p.x # p.y))

\* line 162
correct_predictions(race_odds) ==
    Len(SelectSeq(race_odds, LAMBDA p : Leq(p.x, p.y)))

\* line 168: f"{accuracy:.2%}" in hundredths of a percent, rounded half to
\* even; numpy's 0 / 0 is nan, printed as nan%.  (No tie is inexact in binary
\* below 32 pairs.)
Percent(correct, total) ==
    IF total = 0 THEN [kind |-> "nan", bp |-> 0]
    ELSE LET q == (10000 * correct) \div total
             r == (10000 * correct) % total
         IN  [kind |-> "pct",
              bp |-> IF 2 * r < total THEN q
                     ELSE IF 2 * r > total THEN q + 1
                     ELSE IF q % 2 = 0 THEN q ELSE q + 1]

\* df is the table after the call, out what the call printed
calculate_accuracy(df, column_name) ==
    LET c == Call("calculate_accuracy", column_name)
        df1 == apply_string_odds_to_float(df, column_name)
        race_odds == Merge(df1, column_name, actual_winners(df1))
    IN  IF column_name # "ForecastPrice" /\ column_name # "StartingPrice"
        THEN [df |-> df, out |-> [c EXCEPT !.msg = AccuracyMessage(df, column_name)]]
        ELSE [df |-> df1,
              out |-> [c EXCEPT !.msg = "ok",
                         !.report = [race_odds |-> race_odds,
                                     correct_predictions |-> correct_predictions(race_odds),
                                     total_predictions |-> Len(race_odds),
                                     accuracy |-> Percent(correct_predictions(race_odds),
                                                          Len(race_odds))]]]

--------------------------------------------------------------------------
(* The script: clean_data, then analysis calls on the cleaned table *)

MaxCalls == 2

MaxRaceThreshold == 2

MaxTopBottom == 2

ColumnArgs == {"HorseID", "Age", "ForecastPrice", "Distance"}

\* the thresholds are read only past the column check
WinData ==
    /\ pc = "analysis"
    /\ calls < MaxCalls
    /\ \E column_name \in ColumnArgs :
          IF column_name \in valid_win_data_columns
          THEN \E race_threshold \in 1..MaxRaceThreshold,
                  top_bottom_threshold \in 0..MaxTopBottom :
                  out' \in win_data(clean_df, column_name, race_threshold,
                                    top_bottom_threshold)
          ELSE out' \in win_data(clean_df, column_name, 1, 0)
    /\ calls' = calls + 1
    /\ UNCHANGED <<raw_df, clean_df, pc, value, result>>

PlotBarWins ==
    /\ pc = "analysis"
    /\ calls < MaxCalls
    /\ \E column_name \in ColumnArgs :
          out' \in plot_bar_wins(clean_df, column_name)
    /\ pc' = IF out'.raised = "" THEN "analysis" ELSE "failed"
    /\ calls' = calls + 1
    /\ UNCHANGED <<raw_df, clean_df, value, result>>

CalculateAccuracy ==
    /\ pc = "analysis"
    /\ calls < MaxCalls
    /\ \E column_name \in ColumnArgs :
          LET r == calculate_accuracy(clean_df, column_name)
          IN  /\ clean_df' = r.df
              /\ out' = r.out
    /\ calls' = calls + 1
    /\ UNCHANGED <<raw_df, pc, value, result>>

--------------------------------------------------------------------------
(* The raw tables of the Cleaner's specification: 1 to MaxBlocks blocks   *)
(* of equal rows, of 1, Threshold - 1 or Threshold rows each              *)

TextHalf == <<"1", "/", "2">>

TextDate == <<"5", "-", "F", "e", "b">>

TextA == <<"A">>

TextB == <<"B">>

FullRow ==
    [c \in Columns |->
        CASE c = "RaceID" -> Whole(1)
          [] c = "HorseID" -> Str(TextA)
          [] c = "Age" -> Whole(3)
          [] c = "Won" -> Whole(0)
          [] c = "ForecastPrice" -> Str(TextHalf)
          [] c = "StartingPrice" -> Str(TextDate)]

MaxBlocks == 2

BlockMissing == SUBSET {"Age", "ForecastPrice"}

BlockSizes == {1, Threshold - 1, Threshold}

BlockRow(missing) == [c \in Columns |-> IF c \in missing THEN Null ELSE FullRow[c]]

RECURSIVE BlockRows(_)
BlockRows(bs) ==
    IF bs = <<>> THEN <<>>
    ELSE [i \in 1..bs[1][2] |-> BlockRow(bs[1][1])] \o BlockRows(Tail(bs))

BlockTables ==
    {[cols |-> Columns, rows |-> BlockRows(bs)] :
        bs \in UNION {[1..k -> BlockMissing \X BlockSizes] : k \in 1..MaxBlocks}}

InitClean ==
    /\ raw_df \in BlockTables
    /\ clean_df = NoTable
    /\ pc = "clean"
    /\ out = NoOutput
    /\ calls = 0
    /\ value = Null
    /\ result = [fn |-> "", raised |-> "", v |-> Null]

NextClean == Clean

SpecClean == InitClean /\ [][NextClean]_vars

--------------------------------------------------------------------------
(* The raw tables of the script's specification: every table of at most   *)
(* MaxRows rows over two races, two horses and three forecast prices, and  *)
(* five larger tables                                                      *)

MaxRows == 1

Text2to1 == <<"2", "/", "1">>

Text3to1 == <<"3", "/", "1">>

Text1to1 == <<"1", "/", "1">>

Text1to0 == <<"1", "/", "0">>

TextX == <<"x">>

TextC == <<"C">>

AgeOf(horse) == IF horse = TextA THEN 3 ELSE IF horse = TextB THEN 4 ELSE 5

Row(race, horse, won, fp) ==
    [c \in Columns |->
        CASE c = "RaceID" -> Whole(race)
          [] c = "HorseID" -> Str(horse)
          [] c = "Age" -> Whole(AgeOf(horse))
          [] c = "Won" -> Whole(won)
          [] c = "ForecastPrice" -> fp
          [] c = "StartingPrice" -> Str(TextDate)]

SmallRows ==
    {Row(race, horse, won, fp) :
        race \in {1, 2}, horse \in {TextA, TextB}, won \in {0, 1},
        fp \in {Str(TextHalf), Str(Text2to1), Null}}

SmallTables ==
    {[cols |-> Columns, rows |-> rs] :
        rs \in UNION {[1..k -> SmallRows] : k \in 0..MaxRows}}

\* two races of two horses, winner/loser odds 0.5/2.0 and 3.0/1.0
TwoRaces ==
    [cols |-> Columns,
     rows |-> <<Row(1, TextA, 1, Str(TextHalf)), Row(1, TextB, 0, Str(Text2to1)),
                Row(2, TextA, 0, Str(Text1to1)), Row(2, TextB, 1, Str(Text3to1))>>]

\* A with 3 wins in 10 races, B with 1 win in 2 races
TenAndTwo ==
    [cols |-> Columns,
     rows |-> [i \in 1..12 |->
                 IF i <= 10 THEN Row(i, TextA, IF i <= 3 THEN 1 ELSE 0, Str(TextHalf))
                 ELSE Row(i, TextB, IF i = 11 THEN 1 ELSE 0, Str(Text2to1))]]

\* winners whose odds are no fraction
Malformed ==
    [cols |-> Columns,
     rows |-> <<Row(1, TextA, 1, Str(Text1to0)), Row(1, TextB, 0, Str(TextHalf)),
                Row(2, TextB, 1, Str(TextX)), Row(2, TextA, 1, Str(Text2to1))>>]

\* A and B with 1 win in 2 races each
Tied ==
    [cols |-> Columns,
     rows |-> <<Row(1, TextA, 1, Str(TextHalf)), Row(1, TextB, 0, Str(TextHalf)),
                Row(2, TextB, 1, Null), Row(2, TextA, 0, Str(Text2to1))>>]

\* three groups: A and B with 1 win in 2 races, C with 1 win in 1 race
ThreeHorses ==
    [cols |-> Columns,
     rows |-> <<Row(1, TextA, 1, Str(TextHalf)), Row(1, TextB, 0, Str(Text2to1)),
                Row(2, TextA, 0, Str(Text2to1)), Row(2, TextB, 1, Str(Text1to1)),
                Row(3, TextC, 1, Str(Text3to1))>>]

Init ==
    /\ raw_df \in SmallTables \cup {TwoRaces, TenAndTwo, Malformed, Tied, ThreeHorses}
    /\ clean_df = NoTable
    /\ pc = "clean"
    /\ out = NoOutput
    /\ calls = 0
    /\ value = Null
    /\ result = [fn |-> "", raised |-> "", v |-> Null]

Next == Clean \/ WinData \/ PlotBarWins \/ CalculateAccuracy

Spec == Init /\ [][Next]_vars

--------------------------------------------------------------------------
(* The conversions on their own: the texts are up to MaxParts words joined *)
(* by "/"                                                                  *)

MaxParts == 3

Words ==
    {<<>>, <<"0">>, <<"1">>, <<"2">>, <<"-", "2">>, TextX, <<"i", "n", "f">>,
     <<"N", "a", "N">>, TextDate}

RECURSIVE Join(_)
Join(ws) ==
    IF Len(ws) = 1 THEN ws[1] ELSE ws[1] \o <<"/">> \o Join(Tail(ws))

ConvInputs ==
    {Null} \cup
    {Str(Join(ws)) : ws \in UNION {[1..k -> Words] : k \in 1..MaxParts}}

NoResult == [fn |-> "", raised |-> "", v |-> Null]

InitConv ==
    /\ value \in ConvInputs
    /\ result = NoResult
    /\ pc = "convert"
    /\ raw_df = NoTable
    /\ clean_df = NoTable
    /\ out = NoOutput
    /\ calls = 0

StringOddsToFloat ==
    /\ pc = "convert"
    /\ result' = [fn |-> "string_odds_to_float",
                  raised |-> string_odds_to_float(value).raised,
                  v |-> string_odds_to_float(value).v]
    /\ pc' = "converted"
    /\ UNCHANGED <<raw_df, clean_df, out, calls, value>>

ConvertDatesToOdds ==
    /\ pc = "convert"
    /\ result' = [fn |-> "convert_dates_to_odds", raised |-> "",
                  v |-> convert_dates_to_odds(value)]
    /\ pc' = "converted"
    /\ UNCHANGED <<raw_df, clean_df, out, calls, value>>

NextConv == StringOddsToFloat \/ ConvertDatesToOdds

SpecConv == InitConv /\ [][NextConv]_vars

--------------------------------------------------------------------------
(* The Cleaner's claims *)

\* a cell without a value: missing, or the text str() makes of a missing
\* value (read_csv never yields the text 'nan': it reads it as missing)
Lacks(c) == isnull(c) \/ c = Str(<<"n", "a", "n">>)

LackCount(df, c) == Cardinality({i \in 1..Len(df.rows) : Lacks(df.rows[i][c])})

\* C3: every column that has fewer than Threshold missing values in the raw
\* table (the odds columns included) has a value in every row of the table
\* clean_data returns.
C3_NoMissingInLowMissingnessColumns ==
    pc = "analysis" =>
        \A c \in raw_df.cols :
            LackCount(raw_df, c) < Threshold /\ c \in clean_df.cols =>
                \A i \in 1..Len(clean_df.rows) : ~Lacks(clean_df.rows[i][c])

\* C4: for a raw table of any number of rows clean_data returns a cleaned
\* table, and no column that was missing in every row of the raw table
\* remains in it.
C4_CleanReturnsWithoutEmptyColumns ==
    /\ pc # "failed"
    /\ pc = "analysis" =>
           \A c \in raw_df.cols :
               LackCount(raw_df, c) = Len(raw_df.rows) => c \notin clean_df.cols

--------------------------------------------------------------------------
(* The analysis functions' claims *)

AllowList(fn) ==
    CASE fn = "win_data" -> valid_win_data_columns
      [] fn = "plot_bar_wins" -> {"WeightValue", "Age"}
      [] fn = "calculate_accuracy" -> {"ForecastPrice", "StartingPrice"}
      [] OTHER -> {}

AnalysisFunctions == {"win_data", "plot_bar_wins", "calculate_accuracy"}

\* C1: a column name outside the function's allow-list gives the "unable"
\* message when the table has the column and the "not present" message when
\* it has not, and the function returns with nothing computed.
C1_UnsupportedAndAbsentMessages ==
    out.fn \in AnalysisFunctions /\ out.col \notin AllowList(out.fn) =>
        /\ out.raised = ""
        /\ out.report = <<>>
        /\ out.msg = IF out.col \in clean_df.cols THEN "unable" ELSE "not present"

AccuracyReported(o) == o.fn = "calculate_accuracy" /\ o.msg = "ok"

\* C2: no analysis call changes the cleaned table, and a calculate_accuracy
\* call that follows one on the same odds column reports the same accuracy.
C2_AnalysisLeavesTableUnchanged ==
    [][pc = "analysis" =>
        /\ clean_df' = clean_df
        /\ AccuracyReported(out) /\ AccuracyReported(out') /\ out'.col = out.col =>
               out'.report.accuracy = out.report.accuracy]_vars

\* the (winner, runner) pairs of df: w has Won = 1 and h the same RaceID
Pairs(df) ==
    {p \in (1..Len(df.rows)) \X (1..Len(df.rows)) :
        /\ df.rows[p[1]]["Won"] = Whole(1)
        /\ df.rows[p[2]]["RaceID"] = df.rows[p[1]]["RaceID"]}

Converted(df, col, i) == string_odds_to_float(df.rows[i][col]).v

CorrectPairs(df, col) ==
    {p \in Pairs(df) : Leq(Converted(df, col, p[1]), Converted(df, col, p[2]))}

\* C5: with no group at the race threshold in win_data, or no pair in
\* calculate_accuracy, the call reports a "no data" condition and no result
\* computed from the empty data.
C5_EmptyDataIsReported ==
    /\ out.fn = "win_data" /\ out.col \in valid_win_data_columns
          /\ wins_df(clean_df, out.col, out.args[1]) = {}
          => out.msg = "no data" /\ out.report = <<>>
    /\ out.fn = "calculate_accuracy" /\ out.col \in AllowList(out.fn)
          /\ Pairs(clean_df) = {}
          => out.msg = "no data" /\ out.report = <<>>

\* C6: calculate_accuracy on an odds column counts every (winner, runner of
\* the same race) pair, the self-pairs included, counts as correct the pairs
\* whose winner's converted odds are <= the runner's, and prints correct /
\* total as a percentage rounded to two decimals.
C6_AccuracyIsCorrectOverTotal ==
    [][AccuracyReported(out') /\ calls' = calls + 1 =>
        LET total == Cardinality(Pairs(clean_df))
            correct == Cardinality(CorrectPairs(clean_df, out'.col))
            a == out'.report.accuracy
        IN  /\ out'.report.total_predictions = total
            /\ out'.report.correct_predictions = correct
            /\ total > 0 =>
                  /\ a.kind = "pct"
                  /\ 2 * Abs(a.bp * total - 10000 * correct) <= total]_vars

C6_Witness ==
    /\ raw_df.rows = apply_convert_dates_to_odds(TwoRaces, "StartingPrice").rows
    /\ AccuracyReported(out)
    /\ out.col = "ForecastPrice"
    /\ out.report.total_predictions = 4
    /\ out.report.correct_predictions = 3
    /\ out.report.accuracy = [kind |-> "pct", bp |-> 7500]

IsNumber(c) == c.t \in {"num", "inf"}

SelfPairs(race_odds) == {i \in 1..Len(race_odds) : race_odds[i].w = race_odds[i].h}

Winners(df) == {i \in 1..Len(df.rows) : df.rows[i]["Won"] = Whole(1)}

\* C7 as stated: every self-pair satisfies <= and is counted as correct,
\* whatever the winner's odds text.
C7_EverySelfPairIsCorrect ==
    AccuracyReported(out) =>
        /\ \A i \in SelfPairs(out.report.race_odds) :
               Leq(out.report.race_odds[i].x, out.report.race_odds[i].y)
        /\ out.report.correct_predictions >= Cardinality(Winners(clean_df))

\* C7 amended: every winner has one self-pair; the self-pair is counted as
\* correct when the winner's odds converted to a number, and is not when
\* they converted to a missing value or to nan.
C7_NumericSelfPairIsCorrect ==
    AccuracyReported(out) =>
        LET race_odds == out.report.race_odds
            counted == {i \in 1..Len(race_odds) : Leq(race_odds[i].x, race_odds[i].y)}
        IN  /\ \A w \in Winners(clean_df) :
                   Cardinality({i \in SelfPairs(race_odds) : race_odds[i].w = w}) = 1
            /\ \A i \in SelfPairs(race_odds) :
                   /\ race_odds[i].x = clean_df.rows[race_odds[i].w][out.col]
                   /\ i \in counted <=> IsNumber(race_odds[i].x)
            /\ out.report.correct_predictions = Cardinality(counted)
            /\ out.report.correct_predictions >=
                   Cardinality({w \in Winners(clean_df) :
                                   IsNumber(clean_df.rows[w][out.col])})

C7_Witness ==
    /\ AccuracyReported(out)
    /\ \E i, j \in SelfPairs(out.report.race_odds) :
           /\ IsNumber(out.report.race_odds[i].x)
           /\ out.report.race_odds[j].x = Null
    /\ out.report.correct_predictions > 0

WinDataReported == out.fn = "win_data" /\ out.msg = "ok"

\* the groups of the column, their wins and their races, from the table
Races(k) == NUnique(clean_df, GroupRows(clean_df, out.col, k), "RaceID")

Wins(k) == SumWon(clean_df, GroupRows(clean_df, out.col, k))

Qualifying == {k \in GroupKeys(clean_df, out.col) : Races(k) >= out.args[1]}

Keys(s) == {s[i].key : i \in 1..Len(s)}

Reports == <<out.report.best, out.report.top, out.report.worst, out.report.bottom>>

\* C9: win_data reports groups with race_threshold distinct races or more
\* and no other (all of them in "Top N" and "Bottom N" when N covers them),
\* each with the rate sum of Won / number of distinct RaceID.
C9_QualifyingGroupsAndRates ==
    WinDataReported =>
        /\ \A r \in 1..4 : \A i \in 1..Len(Reports[r]) :
              LET e == Reports[r][i]
              IN  /\ e.key \in Qualifying
                  /\ e.TotalRaces = Races(e.key)
                  /\ e.ProportionalWins.n * Races(e.key) = Wins(e.key) * e.ProportionalWins.d
        /\ out.args[2] >= Cardinality(Qualifying) =>
              Keys(out.report.top) = Qualifying /\ Keys(out.report.bottom) = Qualifying
        /\ Qualifying # {} <=> out.report.best # <<>>

KeyA == Str(TextA)

KeyB == Str(TextB)

C9_Witness ==
    /\ WinDataReported
    /\ out.args = <<2, 2>>
    /\ Len(clean_df.rows) = 12
    /\ out.report.top =
          <<[key |-> KeyB, ProportionalWins |-> Num(1, 2), TotalRaces |-> 2],
            [key |-> KeyA, ProportionalWins |-> Num(3, 10), TotalRaces |-> 10]>>

Min(a, b) == IF a < b THEN a ELSE b

\* r1 is a strictly lower rate than r2
Lower2(k1, k2) == Wins(k1) * Races(k2) < Wins(k2) * Races(k1)

NoRepeat(s) == \A i, j \in 1..Len(s) : i # j => s[i].key # s[j].key

\* C10: "Top N" holds min(N, G) of the G qualifying groups and no group left
\* out of it has a strictly higher rate than one in it; "Bottom N" likewise
\* with lower; "Best" and "Worst" hold every group at the maximum and at the
\* minimum rate.
C10_TopBottomBestWorst ==
    WinDataReported =>
        LET N == out.args[2]
            G == Cardinality(Qualifying)
            top == Keys(out.report.top)
            bottom == Keys(out.report.bottom)
        IN  /\ Len(out.report.top) = Min(N, G) /\ NoRepeat(out.report.top)
            /\ top \subseteq Qualifying
            /\ \A k \in Qualifying \ top : \A m \in top : ~Lower2(m, k)
            /\ Len(out.report.bottom) = Min(N, G) /\ NoRepeat(out.report.bottom)
            /\ bottom \subseteq Qualifying
            /\ \A k \in Qualifying \ bottom : \A m \in bottom : ~Lower2(k, m)
            /\ NoRepeat(out.report.best) /\ NoRepeat(out.report.worst)
            /\ Keys(out.report.best) =
                  {k \in Qualifying : \A m \in Qualifying : ~Lower2(k, m)}
            /\ Keys(out.report.worst) =
                  {k \in Qualifying : \A m \in Qualifying : ~Lower2(m, k)}

C10_Witness ==
    /\ WinDataReported
    /\ out.args[2] = 1
    /\ Cardinality(Qualifying) = 3
    /\ Len(out.report.top) = 1
    /\ Len(out.report.bottom) = 1
    /\ Len(out.report.best) = 1
    /\ Len(out.report.worst) = 2
    /\ \E k \in Qualifying : Lower2(k, out.report.top[1].key)

--------------------------------------------------------------------------
(* The conversions' claims *)

\* C8: string_odds_to_float never raises; it returns the null marker or the
\* finite number numerator / denominator.
C8_OddsToFloatIsTotal ==
    pc = "converted" /\ result.fn = "string_odds_to_float" =>
        /\ result.raised = ""
        /\ \/ isnull(result.v)
           \/ /\ result.v.t = "num"
              /\ value.t = "str"
              /\ Len(split(value.s, "/")) = 2
              /\ result.v = FloatDiv(float(split(value.s, "/")[1]).v,
                                     float(split(value.s, "/")[2]).v).v

====
